---------------------------- MODULE Spec2Model ----------------------------
(***************************************************************************)
(* A model of TinyFlux (tinyflux/database.py): the coordinator that keeps  *)
(* the storage layer, its sortedness flag and the in-memory index in step  *)
(* across inserts, removes, updates and reindexing, and the read path      *)
(* (contains / count / get / search) that trusts the index when it is      *)
(* valid.                                                                  *)
(*                                                                         *)
(* Positions are 0-based as in the code: position i is storage[i + 1].     *)
(***************************************************************************)
EXTENDS Integers, Sequences, FiniteSets, TLC

VARIABLES
    auto_index,     \* TinyFlux._auto_index
    storage,        \* the records held by TinyFlux._storage, in iteration order
    index_intact,   \* Storage.index_intact
    index_valid,    \* Index.valid
    index_items,    \* the postings of the Index: {[pos, pt]}
    index_num,      \* len(Index)
    measurements,   \* the names cached in TinyFlux._measurements
    can_append,     \* Storage.can_append
    can_write,      \* Storage.can_write
    inflight,       \* the locals of calls that have started and not returned
    op              \* the last call made on the database and what it returned

vars == <<auto_index, storage, index_intact, index_valid, index_items,
          index_num, measurements, can_append, can_write, inflight, op>>

----------------------------------------------------------------------------
(* Bounds of the model.                                                    *)

MaxLen == 3         \* most records the storage holds
MaxTime == 2        \* timestamps are 1..MaxTime
MaxBatch == 2       \* most points of one insert_multiple call

(* Point.time of a point built without a time: falsy, so insert stamps it. *)
NoTime == 0

None == "None"

Times == 1 .. MaxTime
Measurements == {"a", "b"}
EmptyMap == << >>
TagMaps == {EmptyMap}
FieldMaps == {[fk |-> 1]}

(* A Point: timestamp, measurement name, tag mapping, field mapping.       *)
Points == [time : Times, measurement : Measurements,
           tags : TagMaps, fields : FieldMaps]

(* Points as a caller builds them: the time may be missing.                *)
NewPoints == [time : Times \cup {NoTime}, measurement : Measurements,
              tags : TagMaps, fields : FieldMaps]

----------------------------------------------------------------------------
(* Storage: serialization and the storage contract.                        *)

(* Storage._serialize_point: a point becomes an opaque record (a row).     *)
SerializePoint(p) == [row |-> <<p.time, p.measurement, p.tags, p.fields>>]

(* Storage._deserialize_storage_item: the full point of a record.          *)
DeserializeStorageItem(item) ==
    [time |-> item.row[1], measurement |-> item.row[2],
     tags |-> item.row[3], fields |-> item.row[4]]

(* Storage._deserialize_timestamp: the timestamp only.                     *)
DeserializeTimestamp(item) == item.row[1]

(* Storage._deserialize_measurement: the measurement name only.            *)
DeserializeMeasurement(item) == item.row[2]

Rows == {SerializePoint(p) : p \in Points}

(* Non-decreasing timestamp order of a list of records.                    *)
IsSorted(items) ==
    \A i \in 1 .. Len(items) - 1 :
        DeserializeTimestamp(items[i]) <= DeserializeTimestamp(items[i + 1])

(* list.sort(key=timestamp): a stable insertion sort by timestamp.         *)
RECURSIVE InsertByTime(_, _)
InsertByTime(sorted, item) ==
    IF sorted = << >> THEN <<item>>
    ELSE IF DeserializeTimestamp(sorted[Len(sorted)])
                <= DeserializeTimestamp(item)
         THEN Append(sorted, item)
         ELSE Append(InsertByTime(SubSeq(sorted, 1, Len(sorted) - 1), item),
                     sorted[Len(sorted)])

RECURSIVE SortByTime(_)
SortByTime(items) ==
    IF items = << >> THEN << >>
    ELSE InsertByTime(SortByTime(SubSeq(items, 1, Len(items) - 1)),
                      items[Len(items)])

(* Storage.append: the records go to the end; the flag survives only if    *)
(* it was set and the global order did.                                    *)
StorageAppend(st, intact, points) ==
    LET new == st \o [i \in 1 .. Len(points) |-> SerializePoint(points[i])]
    IN  [storage |-> new, index_intact |-> intact /\ IsSorted(new)]

(* Storage._write(items, index_intact): full replace plus the flag.        *)
StorageWrite(items, intact) == [storage |-> items, index_intact |-> intact]

(* Storage.reset: no contents; an empty store is in order.                 *)
StorageReset == [storage |-> << >>, index_intact |-> TRUE]

----------------------------------------------------------------------------
(* Index.  An index value is [valid, items, num].                          *)

(* Index(valid=...): created empty.                                        *)
IndexNew(valid) == [valid |-> valid, items |-> {}, num |-> 0]

(* Index.build: positions in iteration order, valid.                       *)
IndexBuild(points) ==
    [valid |-> TRUE,
     items |-> {[pos |-> i - 1, pt |-> points[i]] : i \in 1 .. Len(points)},
     num   |-> Len(points)]

(* Index.insert: the new points take the next positions.                   *)
IndexInsert(ix, points) ==
    [valid |-> ix.valid,
     items |-> ix.items \cup
               {[pos |-> ix.num + i - 1, pt |-> points[i]] :
                    i \in 1 .. Len(points)},
     num   |-> ix.num + Len(points)]

(* Index.remove: drops the postings at the positions, no renumbering.      *)
IndexRemove(ix, positions) ==
    [valid |-> ix.valid,
     items |-> {e \in ix.items : e.pos \notin positions},
     num   |-> ix.num - Cardinality(positions)]

(* Index.update: old position -> new position for the entries remapped.   *)
IndexUpdate(ix, remap) ==
    [valid |-> ix.valid,
     items |-> {[pos |-> IF e.pos \in DOMAIN remap THEN remap[e.pos]
                         ELSE e.pos,
                 pt  |-> e.pt] : e \in ix.items},
     num   |-> ix.num]

(* Index._reset: valid and empty.                                          *)
IndexReset == [valid |-> TRUE, items |-> {}, num |-> 0]

(* Index.invalidate: not valid, and holding no entries.                    *)
IndexInvalidate(ix) == [valid |-> FALSE, items |-> {}, num |-> 0]

(* The index of the current state.                                         *)
index == [valid |-> index_valid, items |-> index_items, num |-> index_num]

----------------------------------------------------------------------------
(* Queries: predicates on points, with the structure the index inspects.   *)

MeasurementEq(m) == [kind |-> "measurement", v |-> m]
TagEq(k, v) == [kind |-> "tag", k |-> k, v |-> v]
FieldEq(k, v) == [kind |-> "field", k |-> k, v |-> v]
TimeLt(t) == [kind |-> "time", v |-> t]
Noop == [kind |-> "noop"]
And(l, r) == [kind |-> "and", l |-> l, r |-> r]
Or(l, r) == [kind |-> "or", l |-> l, r |-> r]
Not(q) == [kind |-> "not", q |-> q]

(* query(point): the predicate evaluated on a point.                       *)
RECURSIVE Eval(_, _)
Eval(q, p) ==
    CASE q.kind = "measurement" -> p.measurement = q.v
      [] q.kind = "tag"   -> q.k \in DOMAIN p.tags /\ p.tags[q.k] = q.v
      [] q.kind = "field" -> q.k \in DOMAIN p.fields /\ p.fields[q.k] = q.v
      [] q.kind = "time"  -> p.time < q.v
      [] q.kind = "noop"  -> TRUE
      [] q.kind = "and"   -> Eval(q.l, p) /\ Eval(q.r, p)
      [] q.kind = "or"    -> Eval(q.l, p) \/ Eval(q.r, p)
      [] q.kind = "not"   -> ~Eval(q.q, p)

(* Index.search: the candidate positions of a query and whether they are   *)
(* exact.  Measurement and tag equality resolve exactly; field and time    *)
(* comparisons only narrow; AND intersects, OR unites, and both are exact  *)
(* only if both sides are; anything else is every position, inexact.       *)
RECURSIVE IndexSearch(_, _)
IndexSearch(ix, q) ==
    CASE q.kind = "measurement" ->
            [items |-> {e.pos : e \in {x \in ix.items :
                                         x.pt.measurement = q.v}},
             is_complete |-> TRUE]
      [] q.kind = "tag" ->
            [items |-> {e.pos : e \in {x \in ix.items :
                            /\ q.k \in DOMAIN x.pt.tags
                            /\ x.pt.tags[q.k] = q.v}},
             is_complete |-> TRUE]
      [] q.kind = "field" ->
            [items |-> {e.pos : e \in {x \in ix.items :
                                         q.k \in DOMAIN x.pt.fields}},
             is_complete |-> FALSE]
      [] q.kind = "time" ->
            [items |-> {e.pos : e \in {x \in ix.items : x.pt.time < q.v}},
             is_complete |-> FALSE]
      [] q.kind = "and" ->
            LET l == IndexSearch(ix, q.l)
                r == IndexSearch(ix, q.r)
            IN  [items |-> l.items \cap r.items,
                 is_complete |-> l.is_complete /\ r.is_complete]
      [] q.kind = "or" ->
            LET l == IndexSearch(ix, q.l)
                r == IndexSearch(ix, q.r)
            IN  [items |-> l.items \cup r.items,
                 is_complete |-> l.is_complete /\ r.is_complete]
      [] OTHER ->
            [items |-> {e.pos : e \in ix.items}, is_complete |-> FALSE]

(* The queries and measurement filters the callers of the model pass.      *)
Queries == {MeasurementEq("a"), TimeLt(MaxTime), FieldEq("fk", 2),
            Or(FieldEq("fk", 2), TimeLt(MaxTime)), Noop}
MeasurementArgs == {None} \cup Measurements

----------------------------------------------------------------------------
(* The read path.                                                          *)

(* The index search a call starts with: the measurement filter, if any,    *)
(* is ANDed into the query.                                                *)
IndexRst(ix, query, measurement) ==
    IF measurement # None
    THEN IndexSearch(ix, And(MeasurementEq(measurement), query))
    ELSE IndexSearch(ix, query)

(* Whether a call scans with the help of the index: the index is valid    *)
(* and the candidates are fewer than the whole index.                      *)
UseIndex(ix, query, measurement) ==
    /\ ix.valid
    /\ Cardinality(IndexRst(ix, query, measurement).items) # ix.num

(* enumerate(self._storage) restricted to the positions in a set.          *)
ScanAt(st, positions) ==
    SelectSeq([i \in 1 .. Len(st) |-> i - 1], LAMBDA i : i \in positions)

(* The unindexed scan: optional measurement filter, then the predicate;    *)
(* the positions that pass, in storage order.                              *)
FullScan(st, query, measurement) ==
    SelectSeq([i \in 1 .. Len(st) |-> i - 1],
              LAMBDA i :
                /\ measurement # None
                      => DeserializeMeasurement(st[i + 1]) = measurement
                /\ Eval(query, DeserializeStorageItem(st[i + 1])))

(* The indexed scan: the candidates, in storage order, that are accepted   *)
(* outright (complete result) or pass the predicate.                       *)
IndexScan(st, rst, query) ==
    SelectSeq(ScanAt(st, rst.items),
              LAMBDA i : \/ rst.is_complete
                         \/ Eval(query, DeserializeStorageItem(st[i + 1])))

PointsAt(st, positions) ==
    [n \in 1 .. Len(positions) |-> DeserializeStorageItem(st[positions[n] + 1])]

(* TinyFlux.contains *)
contains(st, ix, query, measurement) ==
    LET rst == IndexRst(ix, query, measurement)
    IN  IF ix.valid /\ rst.items = {} THEN FALSE
        ELSE IF ix.valid /\ rst.is_complete THEN TRUE
        ELSE IF UseIndex(ix, query, measurement)
        THEN \E n \in 1 .. Len(ScanAt(st, rst.items)) :
                Eval(query,
                     DeserializeStorageItem(st[ScanAt(st, rst.items)[n] + 1]))
        ELSE Len(FullScan(st, query, measurement)) > 0

(* TinyFlux.count *)
count(st, ix, query, measurement) ==
    LET rst == IndexRst(ix, query, measurement)
    IN  IF ix.valid /\ rst.items = {} THEN 0
        ELSE IF ix.valid /\ rst.is_complete THEN Cardinality(rst.items)
        ELSE IF UseIndex(ix, query, measurement)
        THEN Len(SelectSeq(ScanAt(st, rst.items),
                    LAMBDA i : Eval(query, DeserializeStorageItem(st[i + 1]))))
        ELSE Len(FullScan(st, query, measurement))

(* get with a full scan that stops at its first match.                     *)
get_first_match(st, ix, query, measurement) ==
    LET rst == IndexRst(ix, query, measurement)
        hit == IndexScan(st, rst, query)
        all == FullScan(st, query, measurement)
    IN  IF ix.valid /\ rst.items = {} THEN << >>
        ELSE IF UseIndex(ix, query, measurement)
        THEN IF hit = << >> THEN << >>
             ELSE <<DeserializeStorageItem(st[hit[1] + 1])>>
        ELSE IF all = << >> THEN << >>
             ELSE <<DeserializeStorageItem(st[all[1] + 1])>>

(* TinyFlux.get: << >> is None, <<p>> is the point p.  The indexed scan    *)
(* stops at the first accepted candidate; the unindexed scan runs to the   *)
(* end and keeps the last match.                                           *)
get(st, ix, query, measurement) ==
    LET rst == IndexRst(ix, query, measurement)
        hit == IndexScan(st, rst, query)
        all == FullScan(st, query, measurement)
    IN  IF ix.valid /\ rst.items = {} THEN << >>
        ELSE IF UseIndex(ix, query, measurement)
        THEN IF hit = << >> THEN << >>
             ELSE <<DeserializeStorageItem(st[hit[1] + 1])>>
        ELSE IF all = << >> THEN << >>
             ELSE <<DeserializeStorageItem(st[all[Len(all)] + 1])>>

(* TinyFlux.search *)
search(st, ix, query, measurement) ==
    LET rst == IndexRst(ix, query, measurement)
    IN  IF ix.valid /\ rst.items = {} THEN << >>
        ELSE IF UseIndex(ix, query, measurement)
        THEN PointsAt(st, IndexScan(st, rst, query))
        ELSE PointsAt(st, FullScan(st, query, measurement))

(* TinyFlux.__len__ *)
len(st, ix, auto) == IF auto /\ ix.valid THEN ix.num ELSE Len(st)

(* Index.get_measurement_names: the names the index maps to positions.     *)
get_measurement_names(ix) == {e.pt.measurement : e \in ix.items}

(* TinyFlux.measurements: from a valid index, otherwise from storage.      *)
measurement_names(st, ix) ==
    IF ix.valid
    THEN get_measurement_names(ix)
    ELSE {DeserializeMeasurement(st[i]) : i \in 1 .. Len(st)}

----------------------------------------------------------------------------
(* Construction and reindex.                                               *)

(* The database as a value: what a call works on and what it leaves.       *)
Db(st, intact, ix) == [storage |-> st, index_intact |-> intact, index |-> ix]

(* reindex without the early return on a valid index.                      *)
reindex_always_build(st, intact, ix) ==
    LET storage_is_sorted == IsSorted(st)
        temp_memory == IF storage_is_sorted THEN st ELSE SortByTime(st)
        w == IF storage_is_sorted
             THEN [storage |-> st, index_intact |-> intact]
             ELSE StorageWrite(temp_memory, TRUE)
    IN  Db(w.storage, w.index_intact,
           IndexBuild([i \in 1 .. Len(temp_memory) |->
                          DeserializeStorageItem(temp_memory[i])]))

(* reindex that builds the index over storage as it finds it.              *)
reindex_no_sort(st, intact, ix) ==
    IF ix.valid THEN Db(st, intact, ix)
    ELSE Db(st, intact,
            IndexBuild([i \in 1 .. Len(st) |-> DeserializeStorageItem(st[i])]))

(* TinyFlux.reindex: nothing if the index is valid; else the sortedness    *)
(* check, the sort and rewrite if it fails, and the build.                 *)
reindex(st, intact, ix) ==
    IF ix.valid THEN Db(st, intact, ix)
    ELSE LET storage_is_sorted == IsSorted(st)
             temp_memory == IF storage_is_sorted THEN st ELSE SortByTime(st)
             w == IF storage_is_sorted
                  THEN [storage |-> st, index_intact |-> intact]
                  ELSE StorageWrite(temp_memory, TRUE)
         IN  Db(w.storage, w.index_intact,
                IndexBuild([i \in 1 .. Len(temp_memory) |->
                               DeserializeStorageItem(temp_memory[i])]))

(* TinyFlux.__init__: the index is created empty with the storage's flag   *)
(* as its validity, and reindex runs if auto_index is on.                  *)
init(auto, st, intact) ==
    IF auto THEN reindex(st, intact, IndexNew(intact))
    ELSE Db(st, intact, IndexNew(intact))

(* _reset_database that invalidates the index in either mode.              *)
reset_database_invalidate(auto, ix) ==
    Db(StorageReset.storage, StorageReset.index_intact, IndexInvalidate(ix))

(* _reset_database that leaves a valid empty index in either mode.         *)
reset_database_valid(auto, ix) ==
    Db(StorageReset.storage, StorageReset.index_intact, IndexReset)

(* TinyFlux._reset_database *)
reset_database(auto, ix) ==
    Db(StorageReset.storage, StorageReset.index_intact,
       IF auto THEN IndexReset ELSE IndexInvalidate(ix))

(* _insert_point that does not extend the index on an in-order append.    *)
insert_point_no_extend(auto, st, intact, ix, new_points) ==
    LET a == StorageAppend(st, intact, new_points)
        ix1 == IF auto /\ ix.valid
               THEN IF a.index_intact THEN ix
                    ELSE IndexInvalidate(ix)
               ELSE ix
        ix2 == IF ~auto /\ ix1.valid THEN IndexInvalidate(ix1) ELSE ix1
    IN  Db(a.storage, a.index_intact, ix2)

(* _insert_point that extends the index whatever the storage reports.      *)
insert_point_always_extend(auto, st, intact, ix, new_points) ==
    LET a == StorageAppend(st, intact, new_points)
        ix1 == IF auto /\ ix.valid
               THEN IndexInsert(ix, new_points)
               ELSE ix
        ix2 == IF ~auto /\ ix1.valid THEN IndexInvalidate(ix1) ELSE ix1
    IN  Db(a.storage, a.index_intact, ix2)

(* _insert_point that only clears the validity flag on an out-of-order     *)
(* append and keeps the entries.                                           *)
insert_point_keep_entries(auto, st, intact, ix, new_points) ==
    LET a == StorageAppend(st, intact, new_points)
        ix1 == IF auto /\ ix.valid
               THEN IF a.index_intact THEN IndexInsert(ix, new_points)
                    ELSE [ix EXCEPT !.valid = FALSE]
               ELSE ix
        ix2 == IF ~auto /\ ix1.valid THEN IndexInvalidate(ix1) ELSE ix1
    IN  Db(a.storage, a.index_intact, ix2)

(* TinyFlux._insert_point: append, then extend or invalidate the index.    *)
insert_point(auto, st, intact, ix, new_points) ==
    LET a == StorageAppend(st, intact, new_points)
        ix1 == IF auto /\ ix.valid
               THEN IF a.index_intact THEN IndexInsert(ix, new_points)
                    ELSE IndexInvalidate(ix)
               ELSE ix
        ix2 == IF ~auto /\ ix1.valid THEN IndexInvalidate(ix1) ELSE ix1
    IN  Db(a.storage, a.index_intact, ix2)

(* The branch _insert_point takes, for the record of the call.             *)
insert_path(auto, st, intact, ix, new_points) ==
    IF ~ix.valid THEN "invalid"
    ELSE IF ~auto THEN "invalidate"
    ELSE IF StorageAppend(st, intact, new_points).index_intact THEN "extend"
    ELSE "invalidate"

(* The same without the overwrite of the point's measurement.              *)
prepare_keep_measurement(point, measurement, now) ==
    [point EXCEPT
        !.time = IF point.time = NoTime THEN now ELSE point.time]

(* What insert and insert_multiple do to a point before it is stored: the  *)
(* measurement argument, if given, replaces the point's; a missing time    *)
(* becomes the current time.                                               *)
Prepare(point, measurement, now) ==
    [point EXCEPT
        !.time = IF point.time = NoTime THEN now ELSE point.time,
        !.measurement = IF measurement # None /\ point.measurement # measurement
                        THEN measurement ELSE point.measurement]

(* A value that is not a Point, and the isinstance test.                   *)
NotAPoint == [nonpoint |-> TRUE]
IsPoint(x) == "time" \in DOMAIN x

(* TinyFlux.insert: the type check, then the point is prepared and         *)
(* stored.  The database it leaves, the count it returns and the branch    *)
(* it took.                                                                *)
insert(auto, st, intact, ix, point, measurement, now) ==
    IF ~IsPoint(point)
    THEN [db |-> Db(st, intact, ix), ret |-> 0, path |-> "type_error"]
    ELSE [db |-> insert_point(auto, st, intact, ix,
                              <<Prepare(point, measurement, now)>>),
          ret |-> 1,
          path |-> insert_path(auto, st, intact, ix,
                               <<Prepare(point, measurement, now)>>)]

(* The updater of insert_multiple: each value is checked and prepared in   *)
(* turn and collected in inp_points; the first value that is not a Point   *)
(* raises.                                                                 *)
RECURSIVE updater(_, _, _, _, _)
updater(points, measurement, t, i, acc) ==
    IF i > Len(points) THEN acc
    ELSE IF ~IsPoint(points[i]) THEN [acc EXCEPT !.raised = TRUE]
    ELSE updater(points, measurement, t, i + 1,
                 [acc EXCEPT !.inp_points =
                    Append(acc.inp_points, Prepare(points[i], measurement, t))])

(* The points collected before an error stored all the same.               *)
inserted_partial(auto, st, intact, ix, u) ==
    [db |-> insert_point(auto, st, intact, ix, u.inp_points),
     ret |-> IF u.raised THEN 0 ELSE Len(u.inp_points),
     path |-> IF u.raised THEN "type_error"
              ELSE insert_path(auto, st, intact, ix, u.inp_points)]

(* insert_multiple after its updater: nothing is stored if it raised,      *)
(* else the collected points go to _insert_point.                          *)
inserted(auto, st, intact, ix, u) ==
    IF u.raised
    THEN [db |-> Db(st, intact, ix), ret |-> 0, path |-> "type_error"]
    ELSE [db |-> insert_point(auto, st, intact, ix, u.inp_points),
          ret |-> Len(u.inp_points),
          path |-> insert_path(auto, st, intact, ix, u.inp_points)]

(* TinyFlux.insert_multiple *)
insert_multiple(auto, st, intact, ix, points, measurement, t) ==
    inserted(auto, st, intact, ix,
             updater(points, measurement, t, 1,
                     [raised |-> FALSE, inp_points |-> << >>]))

----------------------------------------------------------------------------
(* remove.                                                                 *)

(* The locals of the scan of remove: the candidate counter j, the next     *)
(* position new_index, the positions marked for removal, the remap table   *)
(* old position -> new position, and the kept records.                     *)
RemoveLocals ==
    [j |-> 0, new_index |-> 0, filtered_items |-> {},
     updated_items |-> << >>, temp_memory |-> << >>]

(* A kept record whose position is tracked: it goes to temp_memory, is     *)
(* entered in the remap table if it moved, and takes the next position.    *)
KeepTracked(acc, i, item) ==
    [acc EXCEPT
        !.temp_memory = Append(acc.temp_memory, item),
        !.updated_items =
            IF i # acc.new_index
            THEN [x \in DOMAIN acc.updated_items \cup {i} |->
                     IF x = i THEN acc.new_index ELSE acc.updated_items[x]]
            ELSE acc.updated_items,
        !.new_index = acc.new_index + 1]

(* The scan of remove with the help of the index, from position i on.      *)
RECURSIVE RemoveIndexScan(_, _, _, _, _)
RemoveIndexScan(st, rst, query, i, acc) ==
    IF i >= Len(st) THEN acc
    ELSE LET item == st[i + 1]
             next ==
               IF acc.j = Cardinality(rst.items) \/ i \notin rst.items
               THEN KeepTracked(acc, i, item)
               ELSE IF \/ rst.is_complete
                       \/ Eval(query, DeserializeStorageItem(item))
               THEN [acc EXCEPT
                        !.filtered_items = acc.filtered_items \cup {i},
                        !.j = acc.j + 1]
               ELSE [KeepTracked(acc, i, item) EXCEPT !.j = acc.j + 1]
         IN  RemoveIndexScan(st, rst, query, i + 1, next)

(* The scan of remove without the index, from position i on.  A record of  *)
(* another measurement is kept without taking a position; a kept record    *)
(* of the measurement takes one only when auto_index is on.                *)
RECURSIVE RemoveFullScan(_, _, _, _, _, _)
RemoveFullScan(st, auto, query, measurement, i, acc) ==
    IF i >= Len(st) THEN acc
    ELSE LET item == st[i + 1]
             next ==
               IF /\ measurement # None
                  /\ DeserializeMeasurement(item) # measurement
               THEN [acc EXCEPT !.temp_memory = Append(acc.temp_memory, item)]
               ELSE IF Eval(query, DeserializeStorageItem(item))
               THEN [acc EXCEPT
                        !.filtered_items = acc.filtered_items \cup {i}]
               ELSE IF auto THEN KeepTracked(acc, i, item)
               ELSE [acc EXCEPT !.temp_memory = Append(acc.temp_memory, item)]
         IN  RemoveFullScan(st, auto, query, measurement, i + 1, next)

(* The single pass of remove over storage: with the index when it is      *)
(* valid and prunes, else the full scan.                                   *)
remove_scan(auto, st, ix, query, measurement) ==
    IF UseIndex(ix, query, measurement)
    THEN RemoveIndexScan(st, IndexRst(ix, query, measurement), query, 0,
                         RemoveLocals)
    ELSE RemoveFullScan(st, auto, query, measurement, 0, RemoveLocals)

(* remove that persists the kept records of an invalid index unsorted.    *)
remove_no_sort(auto, st, intact, ix, query, measurement) ==
    LET rst == IndexRst(ix, query, measurement)
        scan == remove_scan(auto, st, ix, query, measurement)
        ret == Cardinality(scan.filtered_items)
    IN  IF ix.valid /\ rst.items = {}
        THEN [db |-> Db(st, intact, ix), ret |-> 0, path |-> "no_candidates"]
        ELSE IF scan.filtered_items = {}
        THEN [db |-> Db(st, intact, ix), ret |-> 0, path |-> "no_match"]
        ELSE IF scan.temp_memory = << >>
        THEN [db |-> reset_database(auto, ix), ret |-> ret, path |-> "reset"]
        ELSE IF auto /\ ~ix.valid
        THEN LET sorted == scan.temp_memory
                 w == StorageWrite(sorted, TRUE)
             IN  [db |-> Db(w.storage, w.index_intact,
                            IndexBuild([i \in 1 .. Len(sorted) |->
                                DeserializeStorageItem(sorted[i])])),
                  ret |-> ret, path |-> "rebuild"]
        ELSE IF auto /\ ix.valid
        THEN LET w == StorageWrite(scan.temp_memory, TRUE)
             IN  [db |-> Db(w.storage, w.index_intact,
                            IndexUpdate(IndexRemove(ix, scan.filtered_items),
                                        scan.updated_items)),
                  ret |-> ret, path |-> "incremental"]
        ELSE LET w == StorageWrite(scan.temp_memory, ix.valid)
             IN  [db |-> Db(w.storage, w.index_intact, IndexInvalidate(ix)),
                  ret |-> ret, path |-> "invalidate"]

(* TinyFlux.remove: the database it leaves, the count it returns and the   *)
(* branch it took.                                                         *)
remove(auto, st, intact, ix, query, measurement) ==
    LET rst == IndexRst(ix, query, measurement)
        scan == remove_scan(auto, st, ix, query, measurement)
        ret == Cardinality(scan.filtered_items)
    IN  IF ix.valid /\ rst.items = {}
        THEN [db |-> Db(st, intact, ix), ret |-> 0, path |-> "no_candidates"]
        ELSE IF scan.filtered_items = {}
        THEN [db |-> Db(st, intact, ix), ret |-> 0, path |-> "no_match"]
        ELSE IF scan.temp_memory = << >>
        THEN [db |-> reset_database(auto, ix), ret |-> ret, path |-> "reset"]
        ELSE IF auto /\ ~ix.valid
        THEN LET sorted == SortByTime(scan.temp_memory)
                 w == StorageWrite(sorted, TRUE)
             IN  [db |-> Db(w.storage, w.index_intact,
                            IndexBuild([i \in 1 .. Len(sorted) |->
                                DeserializeStorageItem(sorted[i])])),
                  ret |-> ret, path |-> "rebuild"]
        ELSE IF auto /\ ix.valid
        THEN LET w == StorageWrite(scan.temp_memory, TRUE)
             IN  [db |-> Db(w.storage, w.index_intact,
                            IndexUpdate(IndexRemove(ix, scan.filtered_items),
                                        scan.updated_items)),
                  ret |-> ret, path |-> "incremental"]
        ELSE LET w == StorageWrite(scan.temp_memory, ix.valid)
             IN  [db |-> Db(w.storage, w.index_intact, IndexInvalidate(ix)),
                  ret |-> ret, path |-> "invalidate"]

(* TinyFlux._measurements after a remove: _reset_database clears it, the   *)
(* other branches leave it.                                                *)
handles_after(r, handles) == IF r.path = "reset" THEN {} ELSE handles

----------------------------------------------------------------------------
(* update and update_all.                                                  *)

(* An attribute argument of update: not given, a literal value, or a      *)
(* function that derives the new value from the old one.                   *)
NotGiven == [kind |-> "none"]
Literal(v) == [kind |-> "lit", v |-> v]
Derived(f) == [kind |-> "fn", f |-> f]

(* Python's truth of an attribute argument: None counts as not given,      *)
(* and so does the empty mapping for tags and fields.                      *)
Given(a) == a.kind # "none"
GivenMap(a) == a.kind = "fn" \/ (a.kind = "lit" /\ a.v # EmptyMap)

(* A mapping replaced by the new one instead of merged with it.            *)
merge_replace(old, new) == new

(* dict.update: the keys of new are merged into old.                       *)
Merge(old, new) ==
    [k \in DOMAIN old \cup DOMAIN new |->
        IF k \in DOMAIN new THEN new[k] ELSE old[k]]

(* Values of the wrong type, each standing for any such value: a time      *)
(* that is not a datetime, a measurement or tag value that is not a        *)
(* string, a field value that is not a number.                             *)
NotATime == -1
NotAString == "<not a string>"
NotANumber == -2

(* validate_tags / validate_fields: every value is of the right type.      *)
validate_tags(tags) == \A k \in DOMAIN tags : tags[k] # NotAString
validate_fields(fields) == \A k \in DOMAIN fields : fields[k] # NotANumber

(* Arguments that are not queries: one Python takes for true (such as 3)   *)
(* and one it takes for false (such as None or 0).                         *)
NonQuery == [kind |-> "nonquery", truthy |-> TRUE]
FalsyNonQuery == [kind |-> "nonquery", truthy |-> FALSE]
IsQuery(q) == q.kind # "nonquery"

(* The checks _generate_updater makes before it builds perform_update:     *)
(* "ok", or the error raised.                                              *)
generate_updater(query, u) ==
    IF ~IsQuery(query) /\ query.truthy THEN "raise_query"
    ELSE IF ~(\/ Given(u.time) \/ Given(u.measurement)
              \/ GivenMap(u.tags) \/ GivenMap(u.fields))
    THEN "raise"
    ELSE IF u.time.kind = "lit" /\ u.time.v = NotATime THEN "raise_time"
    ELSE IF u.measurement.kind = "lit" /\ u.measurement.v = NotAString
    THEN "raise_measurement"
    ELSE IF u.tags.kind = "lit" /\ GivenMap(u.tags) /\ ~validate_tags(u.tags.v)
    THEN "raise_tags"
    ELSE IF /\ u.fields.kind = "lit" /\ GivenMap(u.fields)
            /\ ~validate_fields(u.fields.v)
    THEN "raise_fields"
    ELSE "ok"

(* The derivation functions the callers of the model pass: each yields a  *)
(* value of the right type for some points and of the wrong type for       *)
(* others, except "next", which always yields a valid field set.           *)
Derive(f, x) ==
    CASE f = "later"  -> IF x \in 1 .. MaxTime - 1 THEN x + 1 ELSE NotATime
      [] f = "rename" -> IF x = "a" THEN "b" ELSE NotAString
      [] f = "bump"   -> IF "fk" \in DOMAIN x /\ x["fk"] = 1
                         THEN [fk |-> 2] ELSE [fk |-> NotANumber]
      [] f = "next"   -> IF "fk2" \in DOMAIN x THEN [fk2 |-> 3]
                         ELSE [fk2 |-> 2]

(* The value perform_update assigns to an attribute.                       *)
NewValue(a, old) == IF a.kind = "fn" THEN Derive(a.f, old) ELSE a.v

(* perform_update assigns the attributes in the order time, measurement,  *)
(* tags, fields; a derived value is checked after it is assigned, and the  *)
(* first invalid one ends the update.  Each step takes the point so far    *)
(* and whether the update has raised.                                      *)
AssignTime(s, u) ==
    IF s.raised \/ ~Given(u.time) THEN s
    ELSE [point  |-> [s.point EXCEPT !.time = NewValue(u.time, s.point.time)],
          raised |-> /\ u.time.kind = "fn"
                     /\ NewValue(u.time, s.point.time) = NotATime]

AssignMeasurement(s, u) ==
    IF s.raised \/ ~Given(u.measurement) THEN s
    ELSE [point  |-> [s.point EXCEPT !.measurement =
                          NewValue(u.measurement, s.point.measurement)],
          raised |-> /\ u.measurement.kind = "fn"
                     /\ NewValue(u.measurement, s.point.measurement)
                          = NotAString]

AssignTags(s, u) ==
    IF s.raised \/ ~GivenMap(u.tags) THEN s
    ELSE [point  |-> [s.point EXCEPT !.tags =
                          Merge(s.point.tags, NewValue(u.tags, s.point.tags))],
          raised |-> /\ u.tags.kind = "fn"
                     /\ ~validate_tags(Merge(s.point.tags,
                                             NewValue(u.tags, s.point.tags)))]

AssignFields(s, u) ==
    IF s.raised \/ ~GivenMap(u.fields) THEN s
    ELSE [point  |-> [s.point EXCEPT !.fields =
                          Merge(s.point.fields,
                                NewValue(u.fields, s.point.fields))],
          raised |-> /\ u.fields.kind = "fn"
                     /\ ~validate_fields(Merge(s.point.fields,
                                     NewValue(u.fields, s.point.fields)))]

(* The point as perform_update leaves it, and whether it raised.           *)
UpdatedPoint(point, u) ==
    AssignFields(
        AssignTags(
            AssignMeasurement(
                AssignTime([point |-> point, raised |-> FALSE], u), u), u), u)

(* The result of perform_update: the point after the update, whether it   *)
(* differs from the old one, whether its time does, and whether the        *)
(* update raised.                                                          *)
Compared(old_point, new) ==
    [point |-> new.point, u |-> new.point # old_point,
     t |-> new.point.time # old_point.time, raised |-> new.raised]

(* perform_update *)
perform_update(point, u) == Compared(point, UpdatedPoint(point, u))

(* The locals of the scan of _update_helper.  serialized records whether   *)
(* every changed point went to temp_memory through _serialize_point;       *)
(* raised, whether perform_update raised and ended the scan; touched, the  *)
(* records as the scan leaves the points it deserialized.                  *)
UpdateLocals ==
    [j |-> 0, update_count |-> 0, time_updates_performed |-> FALSE,
     temp_memory |-> << >>, serialized |-> TRUE, raised |-> FALSE,
     touched |-> << >>]

(* A record the scan passes through to temp_memory as it is.               *)
Untouched(acc, item) ==
    [acc EXCEPT !.temp_memory = Append(acc.temp_memory, item),
                !.touched = Append(acc.touched, item)]

(* A matched point after perform_update: if it changed, it is counted and  *)
(* its new form goes to temp_memory; else the record passes through.       *)
Matched(acc, item, r, index_path) ==
    IF r.raised
    THEN [acc EXCEPT
            !.raised = TRUE,
            !.touched = Append(acc.touched, SerializePoint(r.point))]
    ELSE IF r.u
    THEN [acc EXCEPT
            !.update_count = acc.update_count + 1,
            !.temp_memory = Append(acc.temp_memory, SerializePoint(r.point)),
            !.touched = Append(acc.touched, SerializePoint(r.point)),
            !.serialized = acc.serialized /\ index_path,
            !.time_updates_performed = acc.time_updates_performed \/ r.t]
    ELSE [acc EXCEPT
            !.temp_memory = Append(acc.temp_memory, item),
            !.touched = Append(acc.touched, item),
            !.j = IF index_path THEN acc.j + 1 ELSE acc.j]

(* A matched point is updated.                                             *)
UpdateMatched(acc, item, u, index_path) ==
    Matched(acc, item, perform_update(DeserializeStorageItem(item), u),
            index_path)

(* The scan of _update_helper with the help of the index.                  *)
RECURSIVE UpdateIndexScan(_, _, _, _, _, _)
UpdateIndexScan(st, rst, query, u, i, acc) ==
    IF i >= Len(st) THEN acc
    ELSE LET item == st[i + 1]
             next ==
               IF acc.raised
               THEN [acc EXCEPT !.touched = Append(acc.touched, item)]
               ELSE IF acc.j = Cardinality(rst.items) \/ i \notin rst.items
               THEN Untouched(acc, item)
               ELSE IF \/ rst.is_complete
                       \/ Eval(query, DeserializeStorageItem(item))
               THEN UpdateMatched(acc, item, u, TRUE)
               ELSE [Untouched(acc, item) EXCEPT !.j = acc.j + 1]
         IN  UpdateIndexScan(st, rst, query, u, i + 1, next)

(* The scan of _update_helper without the index.                           *)
RECURSIVE UpdateFullScan(_, _, _, _, _, _, _)
UpdateFullScan(st, update_all, query, u, measurement, i, acc) ==
    IF i >= Len(st) THEN acc
    ELSE LET item == st[i + 1]
             next ==
               IF acc.raised
               THEN [acc EXCEPT !.touched = Append(acc.touched, item)]
               ELSE IF /\ measurement # None
                       /\ DeserializeMeasurement(item) # measurement
               THEN Untouched(acc, item)
               ELSE IF \/ update_all
                       \/ Eval(query, DeserializeStorageItem(item))
               THEN UpdateMatched(acc, item, u, FALSE)
               ELSE Untouched(acc, item)
         IN  UpdateFullScan(st, update_all, query, u, measurement, i + 1, next)

(* Whether the scan of _update_helper gets to call query(_point): on the   *)
(* index path when a candidate position is in storage, else when a record  *)
(* passes the measurement filter.  Calling a value that is not a query     *)
(* raises.                                                                 *)
called_query(st, rst, use_index, measurement) ==
    IF use_index
    THEN \E i \in rst.items : i < Len(st)
    ELSE \E i \in 1 .. Len(st) :
            measurement # None => DeserializeMeasurement(st[i]) = measurement

(* The steps of TinyFlux._update_helper, last first.  Each yields the      *)
(* database the call leaves, the count it returns and the branch it took.  *)
(* inplace is the content of a storage whose _deserialize_storage_item     *)
(* hands out the stored point itself, as the in-memory storage does: when  *)
(* perform_update raises nothing has been written, but the scan has        *)
(* changed the points it updated before the error.                         *)

(* The index after the write: rebuilt if auto-indexing, else left alone.   *)
update_written(auto, ix, scan, resort, temp_memory, w) ==
    [db |-> Db(w.storage, w.index_intact,
               IF auto
               THEN IndexBuild([i \in 1 .. Len(temp_memory) |->
                                   DeserializeStorageItem(temp_memory[i])])
               ELSE ix),
     ret |-> scan.update_count,
     path |-> IF resort THEN "sort_rebuild"
              ELSE IF auto THEN "rebuild" ELSE "write_only",
     serialized |-> scan.serialized, inplace |-> w.storage]

(* The write of temp_memory, flagged in order if it was sorted or the      *)
(* index was valid.                                                        *)
update_write(auto, ix, scan, resort, temp_memory) ==
    update_written(auto, ix, scan, resort, temp_memory,
                   StorageWrite(temp_memory, resort \/ ix.valid))

(* The write made in scan order, never sorted first.                       *)
update_scanned_no_sort(auto, st, intact, ix, scan) ==
    IF scan.raised
    THEN [db |-> Db(st, intact, ix), ret |-> 0, path |-> "raise_derived",
          serialized |-> TRUE, inplace |-> scan.touched]
    ELSE IF scan.update_count = 0
    THEN [db |-> Db(st, intact, ix), ret |-> 0, path |-> "no_change",
          serialized |-> TRUE, inplace |-> st]
    ELSE update_write(auto, ix, scan,
                      auto /\ (scan.time_updates_performed \/ ~ix.valid),
                      scan.temp_memory)

(* The write made even when the scan changed no point.                     *)
update_scanned_always_write(auto, st, intact, ix, scan) ==
    IF scan.raised
    THEN [db |-> Db(st, intact, ix), ret |-> 0, path |-> "raise_derived",
          serialized |-> TRUE, inplace |-> scan.touched]
    ELSE IF auto /\ (scan.time_updates_performed \/ ~ix.valid)
    THEN update_write(auto, ix, scan, TRUE, SortByTime(scan.temp_memory))
    ELSE update_write(auto, ix, scan, FALSE, scan.temp_memory)

(* After the scan: an error of perform_update, no changed point, or the    *)
(* sort that precedes the write.                                           *)
update_scanned(auto, st, intact, ix, scan) ==
    IF scan.raised
    THEN [db |-> Db(st, intact, ix), ret |-> 0, path |-> "raise_derived",
          serialized |-> TRUE, inplace |-> scan.touched]
    ELSE IF scan.update_count = 0
    THEN [db |-> Db(st, intact, ix), ret |-> 0, path |-> "no_change",
          serialized |-> TRUE, inplace |-> st]
    ELSE IF auto /\ (scan.time_updates_performed \/ ~ix.valid)
    THEN update_write(auto, ix, scan, TRUE, SortByTime(scan.temp_memory))
    ELSE update_write(auto, ix, scan, FALSE, scan.temp_memory)

(* After the index search: no candidates, or the scan.                     *)
update_searched(auto, st, intact, ix, update_all, query, u, measurement, rst, use_index) ==
    IF ~update_all /\ ix.valid /\ rst.items = {}
    THEN [db |-> Db(st, intact, ix), ret |-> 0, path |-> "no_candidates",
          serialized |-> TRUE, inplace |-> st]
    ELSE IF ~IsQuery(query)
    THEN [db |-> Db(st, intact, ix), ret |-> 0,
          path |-> IF called_query(st, rst, use_index, measurement)
                   THEN "type_error" ELSE "no_change",
          serialized |-> TRUE, inplace |-> st]
    ELSE update_scanned(auto, st, intact, ix,
            IF use_index
            THEN UpdateIndexScan(st, rst, query, u, 0, UpdateLocals)
            ELSE UpdateFullScan(st, update_all, query, u, measurement, 0,
                                UpdateLocals))

(* An error of _generate_updater: nothing has been read or written.        *)
update_validated(st, intact, ix, error) ==
    [db |-> Db(st, intact, ix), ret |-> 0, path |-> error,
     serialized |-> TRUE, inplace |-> st]

(* TinyFlux._update_helper *)
update_helper(auto, st, intact, ix, update_all, query, u, measurement) ==
    IF generate_updater(query, u) # "ok"
    THEN update_validated(st, intact, ix, generate_updater(query, u))
    ELSE update_searched(auto, st, intact, ix, update_all, query, u,
                         measurement, IndexRst(ix, query, measurement),
                         ~update_all /\ UseIndex(ix, query, measurement))

----------------------------------------------------------------------------
(* The state machine.                                                      *)

(* The storages a database is opened on: any records, and a flag that is   *)
(* set only if they are in order.                                          *)
MaxInit == 1
InitStorages == UNION {[1 .. n -> Rows] : n \in 0 .. MaxInit}

(* The points the callers of the model pass to insert_multiple.            *)
BatchPoints == {p \in NewPoints : p.measurement = "a"}

(* The update arguments the callers of the model pass.                     *)
UpdateWith(time, measurement, tags, fields) ==
    [time |-> time, measurement |-> measurement, tags |-> tags,
     fields |-> fields]
UpdateArgs ==
    {UpdateWith(NotGiven, NotGiven, NotGiven, NotGiven),
     UpdateWith(Literal(1), NotGiven, NotGiven, NotGiven),
     UpdateWith(Literal(MaxTime), NotGiven, NotGiven, NotGiven),
     UpdateWith(NotGiven, Literal("b"), NotGiven, NotGiven),
     UpdateWith(NotGiven, NotGiven, NotGiven, Literal([fk |-> 1]))}

(* Malformed calls of update: a query argument that is not a query, a     *)
(* literal tag value that is not a string, a literal field value that is   *)
(* not a number.                                                           *)
MalformedCalls ==
    {<<NonQuery, UpdateWith(NotGiven, NotGiven, NotGiven, Literal([fk |-> 1]))>>,
     <<FalsyNonQuery,
       UpdateWith(NotGiven, NotGiven, NotGiven, Literal([fk |-> 1]))>>,
     <<Noop, UpdateWith(NotGiven, NotGiven, Literal([a |-> NotAString]),
                        NotGiven)>>,
     <<Noop, UpdateWith(NotGiven, NotGiven, NotGiven,
                        Literal([a |-> NotANumber]))>>}
UpdateCalls == (Queries \X UpdateArgs) \cup MalformedCalls

Set(db) ==
    /\ storage' = db.storage
    /\ index_intact' = db.index_intact
    /\ index_valid' = db.index.valid
    /\ index_items' = db.index.items
    /\ index_num' = db.index.num
    /\ UNCHANGED <<auto_index, can_append, can_write, inflight>>

Call(name, ret, path) == [name |-> name, ret |-> ret, path |-> path]

(* assert self._storage.can_append / can_write with the assert removed    *)
asserts_nothing(flag) == TRUE

(* assert self._storage.can_append / assert self._storage.can_write       *)
asserts(flag) == flag

(* No call in flight.                                                      *)
NoCall == [kind |-> "none"]

(* No call has started.  dropped holds the records that a storage write    *)
(* of one call discarded although another call had appended them.          *)
Idle == [remove |-> NoCall, insert |-> NoCall, dropped |-> << >>]

(* The database constructed over a storage with the given capability     *)
(* flags. With auto_index on the constructor calls reindex, which needs   *)
(* can_write.                                                              *)
Constructed(append, write) ==
    \E auto \in BOOLEAN, st \in InitStorages, intact \in BOOLEAN :
      \E db \in {init(auto, st, intact)} :
        /\ intact => IsSorted(st)
        /\ auto => asserts(write)
        /\ can_append = append
        /\ can_write = write
        /\ auto_index = auto
        /\ storage = db.storage
        /\ index_intact = db.index_intact
        /\ index_valid = db.index.valid
        /\ index_items = db.index.items
        /\ index_num = db.index.num
        /\ measurements = {}
        /\ inflight = Idle
        /\ op = Call("init", 0,
                     IF ~auto THEN "no_index"
                     ELSE IF intact THEN "already_valid" ELSE "built")

(* The database over a storage that can be appended to and rewritten.     *)
Init == Constructed(TRUE, TRUE)

(* A call whose leading assert on the storage capability failed.          *)
Fails(name) ==
    /\ UNCHANGED <<auto_index, storage, index_intact, index_valid,
                   index_items, index_num, measurements, can_append,
                   can_write, inflight>>
    /\ op' = Call(name, 0, "assertion_error")

(* TinyFlux.insert *)
Insert ==
    IF ~asserts(can_append) THEN Fails("insert") ELSE
    \E point \in NewPoints \cup {NotAPoint}, measurement \in {None, "b"} :
      \E now \in IF IsPoint(point) /\ point.time # NoTime
                  THEN {point.time} ELSE Times :
      \E r \in {insert(auto_index, storage, index_intact, index, point,
                        measurement, now)} :
        /\ Len(storage) < MaxLen
        /\ Set(r.db)
        /\ UNCHANGED measurements
        /\ op' = Call("insert", r.ret, r.path)

(* TinyFlux.insert_multiple *)
InsertMultiple ==
    IF ~asserts(can_append) THEN Fails("insert_multiple") ELSE
    \E n \in 0 .. MaxBatch, measurement \in {None, "b"} :
      \E points \in [1 .. n -> BatchPoints \cup {NotAPoint}] :
      \E t \in IF \E i \in 1 .. n :
                      IsPoint(points[i]) /\ points[i].time = NoTime
                THEN Times ELSE {MaxTime} :
      \E r \in {insert_multiple(auto_index, storage, index_intact, index,
                                 points, measurement, t)} :
        /\ Len(storage) + n <= MaxLen
        /\ Set(r.db)
        /\ UNCHANGED measurements
        /\ op' = Call("insert_multiple", r.ret, r.path)

(* TinyFlux.remove *)
Remove ==
    IF ~asserts(can_write) THEN Fails("remove") ELSE
    \E query \in Queries, measurement \in MeasurementArgs :
      \E r \in {remove(auto_index, storage, index_intact, index, query,
                       measurement)} :
        /\ Set(r.db)
        /\ measurements' = handles_after(r, measurements)
        /\ op' = Call("remove", r.ret, r.path)

(* TinyFlux.drop_measurement *)
DropMeasurement ==
    IF ~asserts(can_write) THEN Fails("drop_measurement") ELSE
    \E name \in Measurements :
      \E r \in {remove(auto_index, storage, index_intact, index,
                       MeasurementEq(name), name)} :
        /\ Set(r.db)
        /\ measurements' = handles_after(r, measurements \ {name})
        /\ op' = Call("drop_measurement", r.ret, r.path)

(* TinyFlux.remove_all *)
RemoveAll ==
    IF ~asserts(can_write) THEN Fails("remove_all") ELSE
    /\ Set(reset_database(auto_index, index))
    /\ measurements' = {}
    /\ op' = Call("remove_all", 0, "reset")

(* TinyFlux.drop_measurements *)
DropMeasurements ==
    IF ~asserts(can_write) THEN Fails("drop_measurements") ELSE
    /\ Set(reset_database(auto_index, index))
    /\ measurements' = {}
    /\ op' = Call("drop_measurements", 0, "reset")

(* TinyFlux.update *)
Update ==
    IF ~asserts(can_write) THEN Fails("update") ELSE
    \E call \in UpdateCalls, measurement \in {None, "a"} :
      \E r \in {update_helper(auto_index, storage, index_intact, index,
                              FALSE, call[1], call[2], measurement)} :
        /\ Set(r.db)
        /\ UNCHANGED measurements
        /\ op' = Call("update", r.ret, r.path)

(* TinyFlux.update_all *)
UpdateAll ==
    IF ~asserts(can_write) THEN Fails("update_all") ELSE
    \E u \in UpdateArgs :
      \E r \in {update_helper(auto_index, storage, index_intact, index,
                              TRUE, Noop, u, None)} :
        /\ Set(r.db)
        /\ UNCHANGED measurements
        /\ op' = Call("update_all", r.ret, r.path)

(* TinyFlux.reindex *)
Reindex ==
    IF ~asserts(can_write) THEN Fails("reindex") ELSE
    /\ Set(reindex(storage, index_intact, index))
    /\ UNCHANGED measurements
    /\ op' = Call("reindex", 0,
                  IF index_valid THEN "already_valid"
                  ELSE IF IsSorted(storage) THEN "built" ELSE "sorted_built")

(* The branch of the read path a call takes.                               *)
read_path(ix, query, measurement) ==
    IF ~ix.valid THEN "scan"
    ELSE IF IndexRst(ix, query, measurement).items = {} THEN "no_candidates"
    ELSE IF UseIndex(ix, query, measurement) THEN "index"
    ELSE "all_candidates"

Unchanged ==
    UNCHANGED <<auto_index, storage, index_intact, index_valid, index_items,
                index_num, measurements, can_append, can_write, inflight>>

(* TinyFlux.contains *)
Contains ==
    \E query \in Queries, measurement \in MeasurementArgs :
        /\ op' = Call("contains",
                      IF contains(storage, index, query, measurement)
                      THEN 1 ELSE 0,
                      read_path(index, query, measurement))
        /\ Unchanged

(* TinyFlux.count *)
Count ==
    \E query \in Queries, measurement \in MeasurementArgs :
        /\ op' = Call("count", count(storage, index, query, measurement),
                      read_path(index, query, measurement))
        /\ Unchanged

(* TinyFlux.get *)
Get ==
    \E query \in Queries, measurement \in MeasurementArgs :
        /\ op' = Call("get", Len(get(storage, index, query, measurement)),
                      read_path(index, query, measurement))
        /\ Unchanged

(* TinyFlux.search *)
Search ==
    \E query \in Queries, measurement \in MeasurementArgs :
        /\ op' = Call("search",
                      Len(search(storage, index, query, measurement)),
                      read_path(index, query, measurement))
        /\ Unchanged

Next ==
    \/ Insert
    \/ InsertMultiple
    \/ Remove
    \/ DropMeasurement
    \/ RemoveAll
    \/ DropMeasurements
    \/ Update
    \/ UpdateAll
    \/ Reindex

(* The calls that change the database.                                     *)
Spec == Init /\ [][Next]_vars

NextRead ==
    \/ Next
    \/ Contains
    \/ Count
    \/ Get
    \/ Search

(* The calls that change the database, and the reads between them.         *)
SpecRead == Init /\ [][NextRead]_vars

NextProbe ==
    \/ Next
    \/ Contains
    \/ Count

(* The calls that change the database, with contains and count between     *)
(* them.                                                                   *)
SpecProbe == Init /\ [][NextProbe]_vars

(* TinyFlux.measurement: the handle of a name is cached on first use.      *)
Measurement ==
    \E name \in Measurements :
        /\ measurements' = measurements \cup {name}
        /\ op' = Call("measurement", 0,
                      IF name \in measurements THEN "cached" ELSE "created")
        /\ UNCHANGED <<auto_index, storage, index_intact, index_valid,
                       index_items, index_num, can_append, can_write,
                       inflight>>

NextHandles ==
    \/ Next
    \/ Measurement

(* The calls that change the database or its cache of handles.             *)
SpecHandles == Init /\ [][NextHandles]_vars

(* The databases over a storage that forbids appending, rewriting or both. *)
InitRestricted ==
    \E append, write \in BOOLEAN :
        /\ ~(append /\ write)
        /\ Constructed(append, write)

(* The same calls on a storage that forbids some of them.                  *)
SpecRestricted == InitRestricted /\ [][NextHandles]_vars

(* The update arguments with derivation functions.                        *)
DerivedArgs ==
    {UpdateWith(Derived("later"), NotGiven, NotGiven, NotGiven),
     UpdateWith(NotGiven, Derived("rename"), NotGiven, NotGiven)}

(* The database after _update_helper: as written by the call, or, when     *)
(* perform_update raised, also as left in a storage that hands out its     *)
(* own points.                                                             *)
SetUpdated(r) ==
    \E st \in {r.db.storage, r.inplace} :
        /\ storage' = st
        /\ index_intact' = r.db.index_intact
        /\ index_valid' = r.db.index.valid
        /\ index_items' = r.db.index.items
        /\ index_num' = r.db.index.num

(* TinyFlux.update with derivation functions *)
UpdateDerived ==
    IF ~asserts(can_write) THEN Fails("update") ELSE
    \E query \in {TimeLt(MaxTime), Noop}, u \in DerivedArgs :
      \E r \in {update_helper(auto_index, storage, index_intact, index,
                              FALSE, query, u, None)} :
        /\ SetUpdated(r)
        /\ UNCHANGED <<auto_index, measurements, can_append, can_write,
                       inflight>>
        /\ op' = Call("update", r.ret, r.path)

(* TinyFlux.update_all with derivation functions *)
UpdateAllDerived ==
    IF ~asserts(can_write) THEN Fails("update_all") ELSE
    \E u \in DerivedArgs :
      \E r \in {update_helper(auto_index, storage, index_intact, index,
                              TRUE, Noop, u, None)} :
        /\ SetUpdated(r)
        /\ UNCHANGED <<auto_index, measurements, can_append, can_write,
                       inflight>>
        /\ op' = Call("update_all", r.ret, r.path)

NextDerived ==
    \/ Insert
    \/ Reindex
    \/ UpdateDerived
    \/ UpdateAllDerived

(* The calls that store points and update them through functions.         *)
SpecDerived == Init /\ [][NextDerived]_vars

(* The update arguments that add a field to a point or give it a new      *)
(* value, as a literal and through a function.                             *)
MergeArgs ==
    {UpdateWith(NotGiven, NotGiven, NotGiven, Literal([fk2 |-> 2])),
     UpdateWith(NotGiven, NotGiven, NotGiven, Derived("next"))}

(* TinyFlux.update with field sets to merge *)
UpdateMerge ==
    IF ~asserts(can_write) THEN Fails("update") ELSE
    \E query \in {TimeLt(MaxTime), MeasurementEq("a")}, u \in MergeArgs,
       measurement \in {None, "a"} :
      \E r \in {update_helper(auto_index, storage, index_intact, index,
                              FALSE, query, u, measurement)} :
        /\ Set(r.db)
        /\ UNCHANGED measurements
        /\ op' = Call("update", r.ret, r.path)

(* TinyFlux.update_all with field sets to merge *)
UpdateAllMerge ==
    IF ~asserts(can_write) THEN Fails("update_all") ELSE
    \E u \in MergeArgs :
      \E r \in {update_helper(auto_index, storage, index_intact, index,
                              TRUE, Noop, u, None)} :
        /\ Set(r.db)
        /\ UNCHANGED measurements
        /\ op' = Call("update_all", r.ret, r.path)

NextMerge ==
    \/ Insert
    \/ Reindex
    \/ UpdateMerge
    \/ UpdateAllMerge

(* The calls that store points and merge field sets into them.            *)
SpecMerge == Init /\ [][NextMerge]_vars

----------------------------------------------------------------------------
(* insert and remove in steps, for calls that overlap: the append and the  *)
(* index update of _insert_point; the scan, the storage write and the      *)
(* index update of remove.  One call of each may be in flight.             *)

SetIndex(ix) ==
    /\ index_valid' = ix.valid
    /\ index_items' = ix.items
    /\ index_num' = ix.num

(* _insert_point after the append: the index is extended if it is valid    *)
(* and the storage is in order, else invalidated.                          *)
insert_index(auto, intact, ix, new_points) ==
    IF auto /\ ix.valid
    THEN IF intact THEN IndexInsert(ix, new_points) ELSE IndexInvalidate(ix)
    ELSE IF ~auto /\ ix.valid THEN IndexInvalidate(ix)
    ELSE ix

(* The branch remove takes once it has records to delete and to keep.     *)
remove_branch(auto, ix) ==
    IF auto /\ ~ix.valid THEN "rebuild"
    ELSE IF auto /\ ix.valid THEN "incremental"
    ELSE "invalidate"

(* What remove writes to storage on a branch.                              *)
remove_write(branch, ix, temp_memory) ==
    IF branch = "rebuild" THEN StorageWrite(SortByTime(temp_memory), TRUE)
    ELSE IF branch = "incremental" THEN StorageWrite(temp_memory, TRUE)
    ELSE StorageWrite(temp_memory, ix.valid)

(* What remove does to the index on a branch, after the write.             *)
remove_index(branch, ix, written, scan) ==
    IF branch = "rebuild"
    THEN IndexBuild([i \in 1 .. Len(written) |->
                        DeserializeStorageItem(written[i])])
    ELSE IF branch = "incremental"
    THEN IndexUpdate(IndexRemove(ix, scan.filtered_items),
                     scan.updated_items)
    ELSE IndexInvalidate(ix)

(* insert: the point is appended to storage.                               *)
InsertAppends ==
    \E point \in Points :
      \E a \in {StorageAppend(storage, index_intact, <<point>>)} :
        /\ asserts(can_append)
        /\ inflight.insert = NoCall
        /\ Len(storage) + Len(inflight.dropped) < MaxLen
        /\ index_num < MaxLen
        /\ Cardinality(index_items) < MaxLen
        /\ storage' = a.storage
        /\ index_intact' = a.index_intact
        /\ inflight' = [inflight EXCEPT
                          !.insert = [kind |-> "appended",
                                      new_points |-> <<point>>]]
        /\ UNCHANGED <<auto_index, index_valid, index_items, index_num,
                       measurements, can_append, can_write, op>>

(* insert: the index is updated and the call returns.                      *)
InsertIndexes ==
    /\ inflight.insert # NoCall
    /\ SetIndex(insert_index(auto_index, index_intact, index,
                             inflight.insert.new_points))
    /\ inflight' = [inflight EXCEPT !.insert = NoCall]
    /\ op' = Call("insert", 1, "in_steps")
    /\ UNCHANGED <<auto_index, storage, index_intact, measurements,
                   can_append, can_write>>

(* remove: the scan of storage, when it finds records to delete and        *)
(* records to keep.                                                        *)
RemoveScans ==
    \E query \in Queries, measurement \in MeasurementArgs :
      \E scan \in {remove_scan(auto_index, storage, index, query,
                               measurement)} :
        /\ asserts(can_write)
        /\ inflight.remove = NoCall
        /\ ~(index_valid /\ IndexRst(index, query, measurement).items = {})
        /\ scan.filtered_items # {}
        /\ scan.temp_memory # << >>
        /\ inflight' = [inflight EXCEPT
                          !.remove = [kind |-> "scanned", scan |-> scan,
                                      scanned |-> Len(storage)]]
        /\ UNCHANGED <<auto_index, storage, index_intact, index_valid,
                       index_items, index_num, measurements, can_append,
                       can_write, op>>

(* remove: the kept records are written to storage.  The records that an   *)
(* insert appended after the scan are not among them.                      *)
RemoveWrites ==
    \E w \in {remove_write(remove_branch(auto_index, index), index,
                           IF inflight.remove.kind = "scanned"
                           THEN inflight.remove.scan.temp_memory
                           ELSE << >>)} :
        /\ inflight.remove.kind = "scanned"
        /\ storage' = w.storage
        /\ index_intact' = w.index_intact
        /\ inflight' = [inflight EXCEPT
                          !.remove = [kind |-> "written",
                                      scan |-> inflight.remove.scan,
                                      written |-> w.storage,
                                      branch |-> remove_branch(auto_index,
                                                               index)],
                          !.dropped = inflight.dropped
                                        \o SubSeq(storage,
                                                  inflight.remove.scanned + 1,
                                                  Len(storage))]
        /\ UNCHANGED <<auto_index, index_valid, index_items, index_num,
                       measurements, can_append, can_write, op>>

(* remove: the index is updated and the call returns.                      *)
RemoveIndexes ==
    /\ inflight.remove.kind = "written"
    /\ SetIndex(remove_index(inflight.remove.branch, index,
                             inflight.remove.written, inflight.remove.scan))
    /\ inflight' = [inflight EXCEPT !.remove = NoCall]
    /\ op' = Call("remove",
                  Cardinality(inflight.remove.scan.filtered_items),
                  inflight.remove.branch)
    /\ UNCHANGED <<auto_index, storage, index_intact, measurements,
                   can_append, can_write>>

NextInterleaved ==
    \/ InsertAppends
    \/ InsertIndexes
    \/ RemoveScans
    \/ RemoveWrites
    \/ RemoveIndexes

(* An insert and a remove whose steps interleave.                          *)
SpecInterleaved == Init /\ [][NextInterleaved]_vars


----------------------------------------------------------------------------
(* Properties of the coordinator.                                          *)

(* The calls that change the database.                                     *)
Mutating ==
    {"insert", "insert_multiple", "remove", "remove_all", "drop_measurement",
     "drop_measurements", "update", "update_all", "reindex"}

(* C1: in auto-index mode, after every successful mutating call, either    *)
(* the index is invalid, or it is valid and len(index) is the number of    *)
(* records in storage.                                                     *)
C1_IndexInvalidOrFull ==
    auto_index /\ op.name \in Mutating
        => \/ ~index_valid
           \/ index_valid /\ index_num = Len(storage)

(* C2: in every reachable state, in either mode and right after            *)
(* construction too, a valid index means storage is in non-decreasing      *)
(* timestamp order.                                                        *)
C2_ValidMeansSorted == index_valid => IsSorted(storage)

(* C3: right after construction with auto_index=True, whatever the storage *)
(* holds and whatever its index_intact flag says, storage is sorted, the   *)
(* index is valid and len(index) is the number of records in storage.      *)
C3_ConstructedIndexed ==
    op.name = "init" /\ auto_index
        => /\ IsSorted(storage)
           /\ index_valid
           /\ index_num = Len(storage)

(* The reference of the read claims: the points of storage, in storage     *)
(* order, that pass the measurement filter and the predicate.              *)
LinearScan(st, query, measurement) ==
    SelectSeq([i \in 1 .. Len(st) |-> DeserializeStorageItem(st[i])],
              LAMBDA p : /\ measurement # None => p.measurement = measurement
                         /\ Eval(query, p))

(* C4: in every reachable state, for every query and measurement filter,   *)
(* contains, count and search return what a full linear scan of storage    *)
(* returns: whether some point matches, how many match, and the matches.   *)
C4_ReadsEqualLinearScan ==
    \A query \in Queries, measurement \in MeasurementArgs :
        LET matches == LinearScan(storage, query, measurement)
        IN  /\ contains(storage, index, query, measurement)
                = (matches # << >>)
            /\ count(storage, index, query, measurement) = Len(matches)
            /\ search(storage, index, query, measurement) = matches

(* C5: get returns the first point in storage order that matches the query *)
(* and the measurement filter, or None if there is none, on the indexed    *)
(* path and on the full scan alike.                                        *)
C5_GetReturnsFirst ==
    \A query \in Queries, measurement \in MeasurementArgs :
        LET matches == LinearScan(storage, query, measurement)
        IN  get(storage, index, query, measurement)
                = IF matches = << >> THEN << >> ELSE <<matches[1]>>

(* sub is found in seq, in order, from element n of seq on.                *)
RECURSIVE IsSubSeqFrom(_, _, _)
IsSubSeqFrom(sub, seq, n) ==
    IF sub = << >> THEN TRUE
    ELSE IF n > Len(seq) THEN FALSE
    ELSE IF seq[n] = Head(sub) THEN IsSubSeqFrom(Tail(sub), seq, n + 1)
    ELSE IsSubSeqFrom(sub, seq, n + 1)

(* C6: in every reachable state with a valid index, for every query, the   *)
(* list search returns is in non-decreasing timestamp order and follows    *)
(* the order of storage.                                                   *)
C6_SearchOrdered ==
    index_valid =>
        \A query \in Queries, measurement \in MeasurementArgs :
            LET rst == search(storage, index, query, measurement)
            IN  /\ \A n \in 1 .. Len(rst) - 1 : rst[n].time <= rst[n + 1].time
                /\ IsSubSeqFrom(rst, [i \in 1 .. Len(storage) |->
                                  DeserializeStorageItem(storage[i])], 1)

(* The point the last insert stored: the last record of storage.           *)
Inserted == DeserializeStorageItem(storage[Len(storage)])

Lowest(positions) == CHOOSE i \in positions : \A k \in positions : i <= k

Inserting == {"insert", "insert_multiple"}

(* The latest timestamp of a non-empty storage.                            *)
LatestTimestamp(st) ==
    CHOOSE t \in {DeserializeTimestamp(st[i]) : i \in 1 .. Len(st)} :
        \A i \in 1 .. Len(st) : DeserializeTimestamp(st[i]) <= t

(* C8: in auto-index mode, when the index is valid and storage reports     *)
(* that the append of k points kept the global order, the index stays      *)
(* valid and len(index) grows by exactly k; the postings the index held    *)
(* are kept (no rebuild) and the records storage held are untouched (no    *)
(* rewrite).                                                               *)
C8_SortedAppendExtends ==
    [][op'.name \in Inserting /\ auto_index /\ index_valid /\ index_intact'
        => /\ index_valid'
           /\ index_num' = index_num + op'.ret
           /\ index_items \subseteq index_items'
           /\ Cardinality(index_items' \ index_items) <= op'.ret
           /\ Len(storage') = Len(storage) + op'.ret
           /\ SubSeq(storage', 1, Len(storage)) = storage]_vars

(* An insert_multiple of two points has extended a valid index of an      *)
(* auto-indexed store that held records already.                           *)
C8_Witness ==
    /\ auto_index
    /\ op.name = "insert_multiple" /\ op.ret = 2 /\ op.path = "extend"
    /\ index_valid /\ index_num = 3 /\ Len(storage) = 3

(* C9: in auto-index mode, an insert of a point whose timestamp is earlier *)
(* than the latest stored timestamp leaves the index invalid, and len(db)  *)
(* is then the number of stored points: the previous number plus the       *)
(* number inserted.                                                        *)
C9_OutOfOrderInvalidates ==
    [][(/\ op'.name \in Inserting
        /\ auto_index
        /\ storage # << >>
        /\ (\E i \in Len(storage) + 1 .. Len(storage') :
              DeserializeTimestamp(storage'[i]) < LatestTimestamp(storage)))
        => (/\ ~index_valid'
            /\ len(storage', index', auto_index') = Len(storage')
            /\ Len(storage') = Len(storage) + op'.ret)]_vars

(* An insert of an earlier point has invalidated the valid index of an     *)
(* auto-indexed store.                                                     *)
C9_Witness ==
    /\ auto_index
    /\ op.name = "insert" /\ op.path = "invalidate"
    /\ ~index_valid
    /\ Len(storage) = 3
    /\ DeserializeTimestamp(storage[3]) < DeserializeTimestamp(storage[2])
    /\ len(storage, index, auto_index) = 3

WroteStorage ==
    \/ op.name \in {"remove_all", "drop_measurements"}
    \/ /\ op.name \in {"insert", "insert_multiple", "remove",
                       "drop_measurement", "update", "update_all"}
       /\ op.ret >= 1

(* C11: with auto-indexing off, after any successful write that changes    *)
(* storage the index is invalid, whatever its validity was before.         *)
C11_WriteInvalidatesWhenOff ==
    ~auto_index /\ WroteStorage => ~index_valid

(* Whether a record passes the measurement filter and the predicate.       *)
Matches(item, query, measurement) ==
    /\ measurement # None => DeserializeMeasurement(item) = measurement
    /\ Eval(query, DeserializeStorageItem(item))

(* The records of a list that do not match, in the order of the list.      *)
NotMatching(st, query, measurement) ==
    SelectSeq(st, LAMBDA item : ~Matches(item, query, measurement))

(* Two lists hold the same records, each as many times.                    *)
SameRecords(left, right) ==
    /\ Len(left) = Len(right)
    /\ \A item \in Rows :
          Cardinality({i \in 1 .. Len(left) : left[i] = item})
              = Cardinality({i \in 1 .. Len(right) : right[i] = item})

(* C12: in every reachable state, for every query and measurement filter,  *)
(* remove returns the number of stored points that match, leaves in        *)
(* storage exactly the records that do not match, each unmodified, and     *)
(* leaves no point that matches.                                           *)
C12_RemoveExact ==
    \A query \in Queries, measurement \in MeasurementArgs :
        LET r == remove(auto_index, storage, index_intact, index, query,
                        measurement)
        IN  /\ r.ret = Len(LinearScan(storage, query, measurement))
            /\ SameRecords(r.db.storage,
                           NotMatching(storage, query, measurement))
            /\ LinearScan(r.db.storage, query, measurement) = << >>

(* The last call emptied the store: a remove that deleted points, or a     *)
(* remove_all or drop_measurements.                                        *)
Emptied ==
    \/ op.name \in {"remove_all", "drop_measurements"}
    \/ op.name \in {"remove", "drop_measurement"} /\ op.ret >= 1

(* C13: in auto-index mode, whenever a remove that matches every stored    *)
(* point, a remove_all or a drop_measurements leaves the store with no     *)
(* points, the index is valid and empty and len(db) is 0.                  *)
C13_EmptiedStoreValidEmpty ==
    auto_index /\ Emptied /\ storage = << >>
        => /\ index_valid
           /\ index_num = 0
           /\ index_items = {}
           /\ len(storage, index, auto_index) = 0

(* A remove has matched and deleted every one of several stored points of  *)
(* an auto-indexed store.                                                  *)
C13_Witness ==
    /\ auto_index
    /\ op.name = "remove" /\ op.path = "reset" /\ op.ret >= 2
    /\ storage = << >>
    /\ index_valid /\ index_num = 0

(* The calls that remove by query.                                         *)
Removing == {"remove", "drop_measurement"}

(* Every record of sub is in seq at least as many times.                   *)
SubRecords(sub, seq) ==
    \A item \in Rows :
        Cardinality({i \in 1 .. Len(sub) : sub[i] = item})
            <= Cardinality({i \in 1 .. Len(seq) : seq[i] = item})

(* C14: in auto-index mode, a remove issued while the index is invalid     *)
(* that deletes at least one point and keeps at least one leaves storage   *)
(* sorted by timestamp and the index valid, rebuilt over exactly the kept  *)
(* points: len(index) is the number of kept points.                        *)
C14_RemoveInvalidRebuilds ==
    [][(/\ op'.name \in Removing
        /\ auto_index
        /\ ~index_valid
        /\ op'.ret >= 1
        /\ storage' # << >>)
        => (/\ IsSorted(storage')
            /\ index_valid'
            /\ Len(storage') = Len(storage) - op'.ret
            /\ SubRecords(storage', storage)
            /\ index_num' = Len(storage')
            /\ index' = IndexBuild([i \in 1 .. Len(storage') |->
                                      DeserializeStorageItem(storage'[i])]))
      ]_vars

(* A remove on an invalid index has deleted one point and kept two, and    *)
(* the index is rebuilt.                                                   *)
C14_Witness ==
    /\ auto_index
    /\ op.name = "remove" /\ op.path = "rebuild" /\ op.ret = 1
    /\ Len(storage) = 2 /\ IsSorted(storage)
    /\ DeserializeTimestamp(storage[1]) < DeserializeTimestamp(storage[2])
    /\ index_valid /\ index_num = 2

(* C15: in auto-index mode, a remove issued while the index is valid that  *)
(* deletes some but not all points leaves the index valid without a        *)
(* re-sort or a rebuild: storage holds the kept records in their original  *)
(* relative order and len(index) is the number of kept records.            *)
C15_RemoveValidIncremental ==
    [][(/\ op'.name \in Removing
        /\ auto_index
        /\ index_valid
        /\ op'.ret >= 1
        /\ storage' # << >>)
        => (/\ index_valid'
            /\ Len(storage') = Len(storage) - op'.ret
            /\ IsSubSeqFrom(storage', storage, 1)
            /\ index_num' = Len(storage'))
      ]_vars

(* C16: a remove that matches no point returns 0, performs no storage     *)
(* write, and leaves storage contents and order, the index with its        *)
(* validity flag, and the cache of measurement handles unchanged.          *)
C16_RemoveNoMatchNoop ==
    \A query \in Queries, measurement \in MeasurementArgs :
        LinearScan(storage, query, measurement) = << >>
            => LET r == remove(auto_index, storage, index_intact, index,
                               query, measurement)
               IN  /\ r.ret = 0
                   /\ r.path \in {"no_candidates", "no_match"}
                   /\ r.db = Db(storage, index_intact, index)
                   /\ handles_after(r, measurements) = measurements


(* The errors _generate_updater raises on its arguments.                   *)
ValidationErrors ==
    {"raise", "raise_query", "raise_time", "raise_measurement", "raise_tags",
     "raise_fields"}

(* The calls of update with no attribute at all.                           *)
EmptyCalls ==
    Queries \X {UpdateWith(NotGiven, NotGiven, NotGiven, NotGiven)}

(* C17: an update call with none of time, measurement, tags, fields, with  *)
(* an argument that is not a query, or with a literal tag value that is    *)
(* not a string or a literal field value that is not a number, raises a    *)
(* validation error before any point is mutated: nothing is written and    *)
(* storage and index are unchanged.                                        *)
C17_MalformedUpdateRaises ==
    \A call \in EmptyCalls \cup MalformedCalls, measurement \in {None, "a"} :
        LET r == update_helper(auto_index, storage, index_intact, index,
                               FALSE, call[1], call[2], measurement)
        IN  /\ r.path \in ValidationErrors
            /\ r.db = Db(storage, index_intact, index)

Updating == {"update", "update_all"}

(* C18: if during update or update_all a derivation function yields an     *)
(* invalid value for some matched point, possibly after other matched      *)
(* points were processed, the call raises and the stored contents and the  *)
(* index are exactly as before the call.                                   *)
C18_DerivedFailureLeavesStore ==
    [][(op'.name \in Updating /\ op'.path = "raise_derived")
         => (/\ storage' = storage
             /\ index_intact' = index_intact
             /\ index' = index)]_vars

(* The positions of the records that match a call and that its update     *)
(* would change.                                                           *)
ChangedMatches(st, query, measurement, u) ==
    {i \in 1 .. Len(st) :
        /\ Matches(st[i], query, measurement)
        /\ UpdatedPoint(DeserializeStorageItem(st[i]), u).point
             # DeserializeStorageItem(st[i])}

(* The calls of update and update_all with field sets to merge: whether    *)
(* it is update_all, the query, the attributes, the measurement filter.    *)
MergeCalls ==
    ({FALSE} \X {TimeLt(MaxTime), MeasurementEq("a")} \X MergeArgs
        \X {None, "a"})
    \cup ({TRUE} \X {Noop} \X MergeArgs \X {None})

(* C19: update and update_all return the number of matched points whose   *)
(* attributes differ from their copy made before the update; a matched     *)
(* point the update leaves equal is not counted.                           *)
C19_CountsChangedMatches ==
    \A call \in MergeCalls :
        LET r == update_helper(auto_index, storage, index_intact, index,
                               call[1], call[2], call[3], call[4])
        IN  r.ret = Cardinality(ChangedMatches(storage, call[2], call[4],
                                               call[3]))

(* The field keys and values the merging calls mention.                   *)
MentionedKeys == {"fk2"}
MentionedValues == {2, 3}

(* A record is an old record with the mentioned keys merged into its       *)
(* fields: the mentioned keys hold given values, every other key of the    *)
(* old field set is kept with its value, no other key appears, and time,   *)
(* measurement and tags are the old ones.                                  *)
MergedFrom(new, old) ==
    LET n == DeserializeStorageItem(new)
        o == DeserializeStorageItem(old)
    IN  /\ n.time = o.time
        /\ n.measurement = o.measurement
        /\ n.tags = o.tags
        /\ DOMAIN n.fields = DOMAIN o.fields \cup MentionedKeys
        /\ \A k \in MentionedKeys : n.fields[k] \in MentionedValues
        /\ \A k \in DOMAIN o.fields \ MentionedKeys : n.fields[k] = o.fields[k]

(* The one-to-one maps of the positions of a list onto themselves.         *)
Reorderings(n) ==
    {f \in [1 .. n -> 1 .. n] : \A i, j \in 1 .. n : f[i] = f[j] => i = j}

NoChangePaths == {"no_candidates", "no_change"}

(* C21: an update or update_all in which no point changes, because none    *)
(* matched or because every match was left equal to its old value,         *)
(* returns 0, writes nothing to storage and leaves the index untouched;    *)
(* an invalid index stays invalid.                                         *)
C21_NoChangeUpdateIsNoop ==
    [][(/\ op'.name \in Updating
        /\ \/ op'.path \in NoChangePaths
           \/ SameRecords(storage', storage))
         => (/\ op'.ret = 0
             /\ storage' = storage
             /\ index_intact' = index_intact
             /\ index' = index)]_vars

(* An update changed nothing while the index was invalid over an           *)
(* unsorted store in auto-index mode.                                      *)
C21_Witness ==
    /\ auto_index
    /\ op.name \in Updating
    /\ op.path = "no_change"
    /\ ~index_valid
    /\ ~IsSorted(storage)

(* C22: in auto-index mode, after an update or update_all that changed at  *)
(* least one point, storage is sorted by timestamp and the index is valid  *)
(* and rebuilt over the whole of it, also when a timestamp was changed     *)
(* and when the index was invalid before the call.                         *)
C22_UpdateRebuildsSorted ==
    [][(auto_index /\ op'.name \in Updating /\ op'.ret >= 1)
         => (/\ IsSorted(storage')
             /\ index_valid'
             /\ index_num' = Len(storage')
             /\ index' = IndexBuild([i \in 1 .. Len(storage') |->
                                       DeserializeStorageItem(storage'[i])]))]_vars

(* An update that changed a point sorted a full store of records with      *)
(* different timestamps and rebuilt the index.                             *)
C22_Witness ==
    /\ auto_index
    /\ op.name \in Updating
    /\ op.path = "sort_rebuild"
    /\ op.ret >= 1
    /\ Len(storage) = MaxLen
    /\ DeserializeTimestamp(storage[1]) < DeserializeTimestamp(storage[MaxLen])
    /\ index_valid
    /\ index_num = MaxLen

(* C23: reindex called while the index is valid writes nothing and leaves  *)
(* the contents and order of storage and every part of the index state     *)
(* unchanged.                                                              *)
C23_ReindexValidIsNoop ==
    [][(op'.name = "reindex" /\ index_valid)
         => (/\ storage' = storage
             /\ index_intact' = index_intact
             /\ index_valid' = index_valid
             /\ index_items' = index_items
             /\ index_num' = index_num)]_vars

(* reindex returned at once on a valid index over a full store.            *)
C23_Witness ==
    /\ op.name = "reindex"
    /\ op.path = "already_valid"
    /\ index_valid
    /\ Len(storage) = MaxLen
    /\ index_num = MaxLen

(* C24: reindex called while the index is invalid leaves storage holding   *)
(* the same records, each as many times, in non-decreasing timestamp       *)
(* order, and the index valid over all of them; storage is rewritten only  *)
(* if it was found unsorted.                                               *)
C24_ReindexInvalidSortsAndBuilds ==
    [][(op'.name = "reindex" /\ ~index_valid)
         => (/\ SameRecords(storage', storage)
             /\ IsSorted(storage')
             /\ index_valid'
             /\ index_num' = Len(storage')
             /\ index' = IndexBuild([i \in 1 .. Len(storage') |->
                                       DeserializeStorageItem(storage'[i])])
             /\ IsSorted(storage)
                  => storage' = storage /\ index_intact' = index_intact)]_vars

(* reindex sorted an unsorted store and built the index over it.           *)
C24_Witness ==
    /\ op.name = "reindex"
    /\ op.path = "sorted_built"
    /\ Len(storage) >= 2
    /\ DeserializeTimestamp(storage[1]) < DeserializeTimestamp(storage[Len(storage)])
    /\ index_valid
    /\ index_num = Len(storage)
    /\ index_intact

(* C25: with auto_index on, after drop_measurement(name) returns, storage  *)
(* is sorted by timestamp and a valid index is built over it, whatever     *)
(* the state before, an invalid index and a name that no stored point      *)
(* carries included.                                                       *)
C25_DropMeasurementSortsAndBuilds ==
    [][(auto_index /\ op'.name = "drop_measurement")
         => (/\ IsSorted(storage')
             /\ index_valid'
             /\ index_num' = Len(storage'))]_vars

(* C26: if insert receives a value that is not a Point, or insert_multiple *)
(* receives values one of which, at any position, is not a Point, the      *)
(* call raises a TypeError before any storage write: no point of the       *)
(* batch is stored and storage and index are unchanged.                    *)
C26_NonPointInsertRaises ==
    /\ \A measurement \in {None, "b"} :
          LET r == insert(auto_index, storage, index_intact, index,
                          NotAPoint, measurement, MaxTime)
          IN  r.path = "type_error" /\ r.db = Db(storage, index_intact, index)
    /\ \A n \in 1 .. MaxBatch, measurement \in {None, "b"} :
          \A points \in [1 .. n -> BatchPoints \cup {NotAPoint}] :
            (\E i \in 1 .. n : points[i] = NotAPoint)
              => LET r == insert_multiple(auto_index, storage, index_intact,
                                          index, points, measurement, MaxTime)
                 IN  /\ r.path = "type_error"
                     /\ r.db = Db(storage, index_intact, index)

(* An insert_multiple has raised on a store that holds records under a     *)
(* valid index, which a stored batch would have extended or invalidated.   *)
C26_Witness ==
    /\ op.name = "insert_multiple"
    /\ op.path = "type_error"
    /\ storage # << >>
    /\ Len(storage) < MaxLen
    /\ index_valid
    /\ index_num = Len(storage)


(* The calls that append to the storage and the calls that rewrite it.     *)
Appending == {"insert", "insert_multiple"}
Rewriting ==
    {"remove", "remove_all", "drop_measurement", "drop_measurements",
     "update", "update_all", "reindex"}

(* A call that the capability flags of the storage forbid.                 *)
Forbidden(call) ==
    \/ call.name \in Appending /\ ~can_append
    \/ call.name \in Rewriting /\ ~can_write

(* C27: every mutating call checks the capability flag of the storage      *)
(* (can_append for insert and insert_multiple, can_write for the others)  *)
(* before any other step: when the flag forbids the call, the call fails   *)
(* and storage, index and the cache of measurement handles are unchanged.  *)
C27_ForbiddenCallFails ==
    [][(op'.name \in Appending \cup Rewriting /\ Forbidden(op'))
         => (/\ op'.path = "assertion_error"
             /\ storage' = storage
             /\ index_intact' = index_intact
             /\ index' = index
             /\ measurements' = measurements)]_vars

(* A drop_measurement refused on a storage that holds a record of the      *)
(* name and a cached handle for it.                                        *)
C27_Witness ==
    /\ ~can_write
    /\ op.name = "drop_measurement"
    /\ op.path = "assertion_error"
    /\ "b" \in measurements
    /\ \E i \in 1 .. Len(storage) : DeserializeMeasurement(storage[i]) = "b"

(* C28: in every reachable state len(db) is the number of records in       *)
(* storage, whether it is answered from the index (auto_index on and the   *)
(* index valid) or from storage.                                           *)
C28_LenIsStorageLength == len(storage, index, auto_index) = Len(storage)

(* The measurement names carried by the records in storage.                *)
StoredNames == {DeserializeMeasurement(storage[i]) : i \in 1 .. Len(storage)}

(* C29: in every reachable state measurements() returns exactly the set    *)
(* of measurement names carried by the points in storage, whether it is    *)
(* answered from a valid index or by scanning storage.                     *)
C29_MeasurementsAreStoredNames == measurement_names(storage, index) = StoredNames

(* C30: on every path of update and update_all, with the index and by a   *)
(* full scan, each element of the rewrite buffer handed to the storage    *)
(* write is a serialized record: a storage item passed through unchanged  *)
(* or the output of the serializer for a changed point, never the output  *)
(* of the deserializer.                                                    *)
C30_RewriteBufferSerialized ==
    /\ \A call \in UpdateCalls, measurement \in {None, "a"} :
         update_helper(auto_index, storage, index_intact, index, FALSE,
                       call[1], call[2], measurement).serialized
    /\ \A u \in UpdateArgs :
         update_helper(auto_index, storage, index_intact, index, TRUE,
                       Noop, u, None).serialized

(* The positions below i that a remove deleted.                            *)
DeletedBelow(deleted, i) == {d \in deleted : d < i}

(* The remap table that compacts the positions of the kept records: a     *)
(* kept record that moved goes from i to i minus the deleted positions     *)
(* below it.                                                               *)
ExpectedRemap(st, deleted) ==
    [i \in {k \in 0 .. Len(st) - 1 :
               k \notin deleted /\ DeletedBelow(deleted, k) # {}} |->
        i - Cardinality(DeletedBelow(deleted, i))]

(* C31: whenever remove takes the incremental index path (index.remove    *)
(* then remap), the remap table maps every kept record that moved from    *)
(* its old position to its position in the persisted list and has no      *)
(* other entry, on the index-assisted scan and on the full scan, with or   *)
(* without a measurement filter.                                           *)
C31_RemapTableCompacts ==
    \A query \in Queries, measurement \in MeasurementArgs :
        remove(auto_index, storage, index_intact, index, query,
               measurement).path = "incremental"
        => remove_scan(auto_index, storage, index, query,
                       measurement).updated_items
             = ExpectedRemap(storage,
                   remove_scan(auto_index, storage, index, query,
                               measurement).filtered_items)

(* How often a record occurs in a list of records.                         *)
Occurrences(rec, items) ==
    Cardinality({i \in 1 .. Len(items) : items[i] = rec})

(* The records of st that do not match the call are all in after.          *)
NonMatchesKept(st, after, query, measurement) ==
    \A k \in 1 .. Len(st) :
        ~Matches(st[k], query, measurement)
        => Cardinality({i \in 1 .. Len(st) :
                           /\ st[i] = st[k]
                           /\ ~Matches(st[i], query, measurement)})
             <= Occurrences(st[k], after)

(* C32: update and update_all never change the number of stored points,   *)
(* and every point that does not match the query and the measurement      *)
(* filter has the same record in storage after the call as before it.      *)
C32_UpdateFrame ==
    /\ \A query \in Queries, u \in UpdateArgs, measurement \in {None, "a"} :
         /\ Len(update_helper(auto_index, storage, index_intact, index,
                              FALSE, query, u, measurement).db.storage)
              = Len(storage)
         /\ NonMatchesKept(storage,
                update_helper(auto_index, storage, index_intact, index,
                              FALSE, query, u, measurement).db.storage,
                query, measurement)
    /\ \A u \in UpdateArgs :
         Len(update_helper(auto_index, storage, index_intact, index, TRUE,
                           Noop, u, None).db.storage) = Len(storage)

(* The branches on which _update_helper returns a count.                   *)
ReturningPaths ==
    {"no_candidates", "no_change", "sort_rebuild", "rebuild", "write_only"}

(* The same call of _update_helper made again on the database that the     *)
(* first call, with result r, left.                                        *)
Again(r, update_all, query, u, measurement) ==
    update_helper(auto_index, r.db.storage, r.db.index_intact, r.db.index,
                  update_all, query, u, measurement)

(* A second call with result s changed nothing of what the first call,     *)
(* with result r, left.                                                    *)
SecondIsNoop(r, s) ==
    r.path \in ReturningPaths
    => (s.ret = 0 /\ s.path \in NoChangePaths /\ s.db = r.db)

(* C33: applying the same literal update twice in a row is idempotent:     *)
(* the second call returns 0, performs no storage write and leaves         *)
(* storage and index as the first call left them.                          *)
C33_LiteralUpdateIdempotent ==
    /\ \A query \in Queries, u \in UpdateArgs, measurement \in {None, "a"} :
         SecondIsNoop(update_helper(auto_index, storage, index_intact, index,
                                    FALSE, query, u, measurement),
                      Again(update_helper(auto_index, storage, index_intact,
                                          index, FALSE, query, u,
                                          measurement),
                            FALSE, query, u, measurement))
    /\ \A u \in UpdateArgs :
         SecondIsNoop(update_helper(auto_index, storage, index_intact, index,
                                    TRUE, Noop, u, None),
                      Again(update_helper(auto_index, storage, index_intact,
                                          index, TRUE, Noop, u, None),
                            TRUE, Noop, u, None))

(* The calls that remove or update records.                                *)
Rewriters == {"remove", "drop_measurement", "update", "update_all"}
Resets == {"remove_all", "drop_measurements"}

(* C34: once the index is invalid it stays invalid across inserts, reads   *)
(* and removes or updates that change nothing; it becomes valid again      *)
(* only through reindex, through a remove or update that rewrites storage  *)
(* in auto-index mode, or through a reset of the whole store in            *)
(* auto-index mode.                                                        *)
C34_InvalidStaysInvalid ==
    [][(~index_valid /\ index_valid')
         => (\/ op'.name = "reindex"
             \/ (auto_index /\ op'.name \in Rewriters /\ op'.ret >= 1)
             \/ (auto_index /\ op'.name \in Resets))]_vars

(* A read of a full, unsorted store in auto-index mode that found the      *)
(* index invalid and left it so.                                           *)
C34_Witness ==
    /\ auto_index
    /\ ~index_valid
    /\ op.name = "count"
    /\ op.path = "scan"
    /\ Len(storage) = MaxLen
    /\ ~IsSorted(storage)

(* The record under which a point is to be stored: under the measurement   *)
(* argument if one is given, with the given time if the point has none.    *)
StoredAs(point, measurement, now) ==
    SerializePoint(
        [time |-> IF point.time = NoTime THEN now ELSE point.time,
         measurement |-> IF measurement = None THEN point.measurement
                         ELSE measurement,
         tags |-> point.tags,
         fields |-> point.fields])

(* The result r of an insert call appended exactly the records new, in     *)
(* order, and returned their number.                                       *)
Appended(r, new) ==
    /\ r.ret = Len(new)
    /\ r.db.storage = storage \o new
    /\ Len(r.db.storage) = Len(storage) + r.ret

(* C35: insert and insert_multiple with a measurement argument store       *)
(* every given point under that measurement, give a timestamp to every     *)
(* point that has none, append the points at the end of storage in the     *)
(* given order and return the number of points appended (1 for insert),    *)
(* so the number of stored points grows by exactly the returned value.     *)
C35_InsertAppendsPrepared ==
    /\ \A point \in NewPoints, measurement \in {None, "b"}, now \in Times :
         Appended(insert(auto_index, storage, index_intact, index, point,
                         measurement, now),
                  <<StoredAs(point, measurement, now)>>)
    /\ \A n \in 0 .. MaxBatch, measurement \in {None, "b"}, t \in Times :
         \A points \in [1 .. n -> BatchPoints] :
           Appended(insert_multiple(auto_index, storage, index_intact, index,
                                    points, measurement, t),
                    [i \in 1 .. n |-> StoredAs(points[i], measurement, t)])

(* A batch of two stored under the measurement argument, out of time       *)
(* order, at the end of a store that held a record.                        *)
C35_Witness ==
    /\ op.name = "insert_multiple"
    /\ op.ret = MaxBatch
    /\ Len(storage) = MaxLen
    /\ DeserializeMeasurement(storage[1]) = "a"
    /\ DeserializeMeasurement(storage[MaxLen - 1]) = "b"
    /\ DeserializeMeasurement(storage[MaxLen]) = "b"
    /\ DeserializeTimestamp(storage[MaxLen - 1])
         > DeserializeTimestamp(storage[MaxLen])

(* Predicates built from measurement, tag, field and time comparisons      *)
(* with AND, OR and NOT.                                                   *)
Atoms ==
    {MeasurementEq("a"), TagEq("tk", "tv"), FieldEq("fk", 1),
     FieldEq("fk", 2), TimeLt(MaxTime)}
Literals == Atoms \cup {Not(a) : a \in Atoms}
Compounds(parts) ==
    {And(l, r) : l \in parts, r \in parts}
        \cup {Or(l, r) : l \in parts, r \in parts}
Predicates ==
    Literals \cup Compounds(Literals) \cup {Not(c) : c \in Compounds(Atoms)}

(* The candidates of a search hold every position whose record satisfies   *)
(* the predicate, and only such positions if the result is complete.       *)
SearchSound(st, rst, q) ==
    /\ \A i \in 0 .. Len(st) - 1 :
         Eval(q, DeserializeStorageItem(st[i + 1])) => i \in rst.items
    /\ rst.is_complete
       => \A i \in rst.items :
            /\ i \in 0 .. Len(st) - 1
            /\ Eval(q, DeserializeStorageItem(st[i + 1]))

(* C36: for every predicate built from measurement, tag, field and time    *)
(* comparisons with AND, OR and NOT, and for every valid index, the        *)
(* candidate set of Index.search contains the position of every stored     *)
(* point that satisfies the predicate, and when is_complete is true it     *)
(* contains no position of a point that does not satisfy it.               *)
C36_SearchSoundAndExact ==
    index_valid
    => \A q \in Predicates : SearchSound(storage, IndexSearch(index, q), q)

(* A call of insert or insert_multiple that returned k left its k records  *)
(* at the end of what storage held before.                                 *)
InsertKept ==
    (op'.name \in Appending /\ op'.ret >= 1)
    => (/\ Len(storage') = Len(storage) + op'.ret
        /\ SubSeq(storage', 1, Len(storage)) = storage)

(* C37, calls run one after the other: when every call runs to completion  *)
(* before the next starts, no state is reachable in which a completed      *)
(* insert is lost or the index is valid while len(index) differs from      *)
(* len(storage).                                                           *)
C37_SerialCallsLoseNothing ==
    /\ [](index_valid => index_num = Len(storage))
    /\ [][InsertKept]_vars

(* No call is in flight.                                                   *)
Quiet == inflight.remove = NoCall /\ inflight.insert = NoCall

(* C37, calls in steps: after an insert and a remove whose steps           *)
(* interleaved have both returned, the record of the insert is not in      *)
(* storage.                                                                *)
C37_InsertLost ==
    /\ Quiet
    /\ inflight.dropped # << >>
    /\ \A i \in 1 .. Len(storage) : storage[i] # inflight.dropped[1]

(* C37, calls in steps: after an insert and a remove whose steps           *)
(* interleaved have both returned, the index is valid while len(index)     *)
(* differs from len(storage).                                              *)
C37_IndexLengthDiffers ==
    /\ Quiet
    /\ op.name \in {"insert", "remove"}
    /\ index_valid
    /\ index_num # Len(storage)
=============================================================================
